---- MODULE Spec2Model ----
(***************************************************************************)
(* Model of the Meshroom video plugin: the command line entry point, the   *)
(* orchestrator (MeshroomVideoPlugin.__init__ / process / cleanup) and the *)
(* frame sampler, for the two variants of the program in the repository:   *)
(*   "top" : src/meshroom_video_plugin.py                                  *)
(*   "pkg" : src/meshroom_video_plugin/meshroom_video_plugin.py            *)
(* The external tools (ffmpeg, exiftool, Meshroom, the file system) are    *)
(* black boxes whose outcomes are chosen nondeterministically.             *)
(***************************************************************************)
EXTENDS Integers, Sequences, FiniteSets, TLC

\* ------------------------------------------------------------------ bounds
MaxFrames == 5        \* frames in the source video: 0..MaxFrames
MaxStride == 4        \* --frame-interval: 1..MaxStride
MaxScore == 2         \* sharpness scores: 0..MaxScore
BlurThreshold == 2    \* --blur-threshold, on the scale of MaxScore
MaxSec == 1           \* seconds field of --start / --duration: 0..MaxSec
Fps == 2              \* frames per second of an openable source

\* ------------------------------------------------------- program constants
LookAheadCap == 5     \* min(self.frame_interval // 2, 5)

MaxLines == 3         \* lines the external process writes at most
MaxElapsed == 90      \* seconds since the external process was started
MaxPipe == 2          \* capacity of a pipe, in lines
MaxSubdirs == 2       \* run folders inside the texturing folder
MaxMtime == 2         \* modification times of the run folders

Scores == 0..MaxScore
Strides == 1..MaxStride

\* --frame-interval is parsed with type=int and not validated: every integer
\* is accepted.  AllStrides adds a zero and a negative stride.
AllStrides == (-1)..MaxStride

\* --rotate is a string; self.rotate is 'auto' (<<>>) or an int (<<d>>).
Auto == <<>>
RotateArgs == {"auto", "0", "90", "180", "270", "45", "abc"}

\* A time argument is None (<<>>) or an "H:M:S" string, kept as its fields.
NoTime == <<>>
TimeArgs == {NoTime} \cup {<<0, 0, s>> : s \in 0..MaxSec}

VARIABLES
    variant,          \* which of the two programs runs
    video,            \* the source: [exists, openable, frames]
    cfg,              \* the command line: frame_interval, detect_blur, ...
    ffmpeg_available, \* self.ffmpeg_available
    pc,               \* orchestrator state
    temp_frames_dir,  \* "absent" | "present" | "removed"
    video_info,       \* self.video_info (fps)
    backend,          \* "none" | "opencv" | "ffmpeg"
    smp,              \* the sampling loop's locals and the capture position
    meshroom,         \* "not_started" | "launch_failed" | "exit0" | "exit_nonzero"
    metadata,         \* "not_run" | "raised"
    verdict,          \* outcome of process(): "pending" | "ok" | "fail"
    error,            \* the error that ended the run, "none" if none
    failedIn,         \* orchestrator state in which the error was raised
    cleanup_state,    \* "not_run" | "removed" | "rmtree_failed"
    exitCode,         \* -1 while running, then the process exit code
    rotate,           \* self.rotate
    mlimit,           \* number of lines the external process writes at most
    mon,              \* pkg: the locals of the monitoring loop of run_meshroom
    discovery,        \* pkg: what the output discovery saw and returned
    proc              \* pkg: the external process and its two pipes

vars == <<variant, video, cfg, ffmpeg_available, pc, temp_frames_dir, video_info,
          backend, smp, meshroom, metadata, verdict, error, failedIn,
          cleanup_state, exitCode, rotate, mlimit, mon, discovery, proc>>

Final == {"Done", "Failed"}

\* ------------------------------------------------------------ pure helpers

\* h, m, s = map(int, t.split(':')); h * 3600 + m * 60 + s
ParseHMS(t) == t[1] * 3600 + t[2] * 60 + t[3]

Min(a, b) == IF a < b THEN a ELSE b

Max(a, b) == IF a > b THEN a ELSE b

\* Python's a % b for b # 0 (the result has the sign of b); b = 0 raises
\* ZeroDivisionError, which the callers test before.
PyMod(a, b) == IF b > 0 THEN a % b ELSE 0 - ((0 - a) % (0 - b))

\* main(): int(rotate) succeeds on a decimal string and raises ValueError
\* otherwise.
ArgIsInt(a) == a \in {"0", "90", "180", "270", "45"}

ArgInt(a) ==
    CASE a = "0" -> 0 [] a = "90" -> 90 [] a = "180" -> 180
      [] a = "270" -> 270 [] a = "45" -> 45

\* main(): the rotation argument; an invalid value is replaced by 'auto'
\* with a warning and the run goes on.
NormalizeRotate(a) ==
    IF a = "auto" THEN Auto
    ELSE IF ~ArgIsInt(a) THEN Auto
    ELSE IF ArgInt(a) \notin {0, 90, 180, 270} THEN Auto
    ELSE <<ArgInt(a)>>

\* The locals of the sampling loop before extract_frames is entered.
SamplerIdle ==
    [phase |-> "enter", count |-> 0, pos |-> 0, extracted |-> 0, skipped_blur |-> 0,
     start_frame |-> 0, frames_to_process |-> 0, saved |-> <<>>, readLog |-> <<>>,
     slots |-> <<>>, transforms |-> <<>>, vf |-> "none"]

\* start_frame and end_frame of extract_frames_opencv, and the capture position
\* after the optional cap.set(CAP_PROP_POS_FRAMES, start_frame).
StartFrame(c, info) ==
    IF c.start_time # NoTime THEN ParseHMS(c.start_time) * info.fps ELSE 0

EndFrame(c, info, n) ==
    IF c.duration # NoTime
    THEN Min(n, StartFrame(c, info) + ParseHMS(c.duration) * info.fps)
    ELSE n

EnterLoop(c, info, n) ==
    [SamplerIdle EXCEPT
        !.phase = "loop",
        !.start_frame = StartFrame(c, info),
        !.pos = StartFrame(c, info),
        !.frames_to_process = EndFrame(c, info, n) - StartFrame(c, info)]

\* ------------------------------------------------------- the sampling loop

\* cap.read() succeeds iff the position is on a frame of the source.
ReadOk(pos, n) == pos >= 0 /\ pos < n

\* (mutant) the stride test taken after the counter was advanced
IsCandidateOffByOne(count, s) == PyMod(count + 1, s) = 0

\* if count % self.frame_interval == 0
IsCandidate(count, s) == PyMod(count, s) = 0

\* (mutant) the look-ahead is bounded by the stride only
LookAheadLimitUncapped(s) == s \div 2

\* look_ahead_limit = min(self.frame_interval // 2, 5)
LookAheadLimit(s) == Min(s \div 2, LookAheadCap)

\* for i in range(1, look_ahead_limit + 1): the scan after a blurry candidate.
\* cur is the capture position after the candidate was read, best the
\* candidate's score, ah[i] the score of the i-th frame ahead.  The result
\* holds found_better, the loop variable i at the exit and the frames read.
\* (mutant) any sharper frame is taken, below the threshold or not
ImprovesBelowThreshold(ahead_score, best_score) == ahead_score > best_score

\* if ahead_score > best_score and ahead_score >= self.blur_threshold
Improves(ahead_score, best_score) ==
    ahead_score > best_score /\ ahead_score >= BlurThreshold

RECURSIVE LookAheadScan(_, _, _, _, _, _)
LookAheadScan(i, limit, cur, n, best, ah) ==
    IF i > limit
    THEN [found |-> FALSE, i |-> i - 1, nread |-> i - 1]
    ELSE IF ~ReadOk(cur + (i - 1), n)
    THEN [found |-> FALSE, i |-> i, nread |-> i - 1]
    ELSE IF Improves(ah[i], best)
    THEN [found |-> TRUE, i |-> i, nread |-> i]
    ELSE LookAheadScan(i + 1, limit, cur, n, best, ah)

\* seek_pos = current_pos + (look_ahead_limit if not found_better else i)
SeekPos(cur, limit, scan) == cur + (IF scan.found THEN scan.i ELSE limit)

\* (mutant) the frame is written under the loop counter
SaveFrameAtCount(st, src, score) ==
    [st EXCEPT !.saved = Append(@, [index |-> st.count, src |-> src, score |-> score]),
               !.extracted = @ + 1]

\* frame_path = ...f"frame_{extracted:06d}.jpg"; cv2.imwrite(...); extracted += 1
SaveFrame(st, src, score) ==
    [st EXCEPT !.saved = Append(@, [index |-> st.extracted, src |-> src, score |-> score]),
               !.extracted = @ + 1]

\* (mutant) the rotation tag of the video wins over the explicit degrees
EffectiveRotationTagFirst(rot, detected) ==
    IF detected # 0 THEN detected
    ELSE IF rot # Auto /\ rot[1] # 0 THEN rot[1]
    ELSE 0

\* if self.rotate == 'auto' and self.video_info['rotation'] != 0: ...
\* elif isinstance(self.rotate, (int, float)) and self.rotate != 0: ...
\* else: rotation = 0
EffectiveRotation(rot, detected) ==
    IF rot = Auto /\ detected # 0 THEN detected
    ELSE IF rot # Auto /\ rot[1] # 0 THEN rot[1]
    ELSE 0

\* extract_frames_opencv: the cv2.rotate code applied for a rotation; no
\* branch, and no call, for any other value.
Cv2Rotate(rotation) ==
    CASE rotation = 90 -> "ROTATE_90_CLOCKWISE"
      [] rotation = 180 -> "ROTATE_180"
      [] rotation = 270 -> "ROTATE_90_COUNTERCLOCKWISE"
      [] OTHER -> "none"

\* extract_frames_ffmpeg: the -vf filter for a rotation; none for any other
\* value.
VfFilter(rotation) ==
    CASE rotation = 90 -> "transpose=1"
      [] rotation = 180 -> "transpose=2,transpose=2"
      [] rotation = 270 -> "transpose=2"
      [] OTHER -> "none"

\* The rotation of the frame that the iteration from st0 to st1 has saved,
\* if it has saved one.
Rotated(st0, st1, rot, detected) ==
    IF Len(st1.saved) > Len(st0.saved)
    THEN [st1 EXCEPT !.transforms = Append(@, Cv2Rotate(EffectiveRotation(rot, detected)))]
    ELSE st1

\* (mutant) every blurry candidate is counted
SkippedBlurEveryScan(skipped_blur, found_better) == skipped_blur + 1

\* if not found_better: skipped_blur += 1
SkippedBlur(skipped_blur, found_better) ==
    IF found_better THEN skipped_blur ELSE skipped_blur + 1

\* The record of a candidate is added to the sampler state.
Slot(st, sl) == [st EXCEPT !.slots = Append(@, sl)]

\* The frames cur .. cur + k - 1, in order.
FramesFrom(cur, k) == [j \in 1..k |-> cur + j - 1]

\* One iteration of the while loop of extract_frames_opencv, entered with
\* count < frames_to_process.  cs is the score of the frame read, ah the
\* scores of the frames after it (read only when the candidate is blurry).
\* A frame whose score is not computed is saved with score -1.  st.slots
\* keeps, for every candidate, its frame, its score and the scores of the
\* look-ahead frames read for it.
OpenCVIter(st, blur, s, n, cs, ah) ==
    LET src   == st.pos
        cur   == st.pos + 1
        rd    == [st EXCEPT !.pos = cur, !.readLog = Append(@, src)]
        limit == LookAheadLimit(s)
        scan  == LookAheadScan(1, limit, cur, n, cs, ah)
        ahead == [rd EXCEPT !.pos = SeekPos(cur, limit, scan),
                            !.readLog = @ \o FramesFrom(cur, scan.nread),
                            !.skipped_blur = SkippedBlur(@, scan.found)]
        slot(sc, k) == [cand |-> src, score |-> sc, ahead |-> SubSeq(ah, 1, k)]
        body  == IF ~IsCandidate(st.count, s) THEN rd
                 ELSE IF ~blur THEN Slot(SaveFrame(rd, src, -1), slot(-1, 0))
                 ELSE IF cs >= BlurThreshold THEN Slot(SaveFrame(rd, src, cs), slot(cs, 0))
                 ELSE IF scan.found
                      THEN Slot(SaveFrame(ahead, cur + scan.i - 1, ah[scan.i]),
                                slot(cs, scan.nread))
                      ELSE Slot(SaveFrame(ahead, src, cs), slot(cs, scan.nread))
    IN IF ~ReadOk(st.pos, n)
       THEN [st EXCEPT !.phase = "done"]
       ELSE [body EXCEPT !.count = @ + 1]

\* The scores the frame f can have: the source does not change, so a frame
\* that was scored and saved before (a stride below 1 seeks backwards) keeps
\* its score.
FrameScores(st, f) ==
    LET known == {st.saved[i].score : i \in {j \in 1..Len(st.saved) :
                      st.saved[j].src = f /\ st.saved[j].score >= 0}}
    IN IF known # {} THEN known ELSE Scores

\* while count < frames_to_process
LoopGuard(st) == st.count < st.frames_to_process

\* One iteration of the while True loop of extract_frames of the pkg variant.
PkgIter(st, s, n) ==
    LET src == st.pos
        rd  == [st EXCEPT !.pos = src + 1, !.readLog = Append(@, src)]
        body == IF IsCandidate(st.count, s) THEN SaveFrame(rd, src, -1) ELSE rd
    IN IF ~ReadOk(st.pos, n)
       THEN [st EXCEPT !.phase = "done"]
       ELSE [body EXCEPT !.count = @ + 1]

\* The whole loop of extract_frames_opencv with blur detection disabled.
RECURSIVE RunNoBlur(_, _, _)
RunNoBlur(st, s, n) ==
    IF st.phase # "loop" \/ ~LoopGuard(st) THEN st
    ELSE RunNoBlur(OpenCVIter(st, FALSE, s, n, 0, <<>>), s, n)

\* ------------------------------------------------------ text of the process
\* A line of the standard output of the external process is a sequence of
\* one-character strings; `for line in process.stdout` keeps the newline.

UpperCase ==
    <<"A", "B", "C", "D", "E", "F", "G", "H", "I", "J", "K", "L", "M", "N", "O", "P",
      "Q", "R", "S", "T", "U", "V", "W", "X", "Y", "Z">>

LowerCase ==
    <<"a", "b", "c", "d", "e", "f", "g", "h", "i", "j", "k", "l", "m", "n", "o", "p",
      "q", "r", "s", "t", "u", "v", "w", "x", "y", "z">>

\* the characters of \d, in the order of their values
DigitChars ==
    <<"0", "1", "2", "3", "4", "5", "6", "7", "8", "9">>

Range(f) == {f[i] : i \in DOMAIN f}

Digits == Range(DigitChars)

\* the characters of \w
WordChars == Range(UpperCase) \cup Range(LowerCase) \cup Digits \cup {"_"}

\* the characters str.strip() removes
Whitespace == {" ", "\t", "\n", "\r"}

DigitVal(c) == (CHOOSE i \in DOMAIN DigitChars : DigitChars[i] = c) - 1

\* int(group) of a run of digits
RECURSIVE ParseInt(_)
ParseInt(ds) ==
    IF ds = <<>> THEN 0
    ELSE 10 * ParseInt(SubSeq(ds, 1, Len(ds) - 1)) + DigitVal(ds[Len(ds)])

\* str.lower()
LowerChar(c) ==
    IF c \in Range(UpperCase)
    THEN LowerCase[CHOOSE i \in DOMAIN UpperCase : UpperCase[i] = c]
    ELSE c

Lower(l) == [i \in 1..Len(l) |-> LowerChar(l[i])]

\* str.strip()
Strip(l) ==
    LET keep == {i \in 1..Len(l) : l[i] \notin Whitespace}
    IN IF keep = {} THEN <<>>
       ELSE SubSeq(l, CHOOSE i \in keep : \A j \in keep : i <= j,
                      CHOOSE i \in keep : \A j \in keep : i >= j)

\* pat occurs in l at position i
OccursAt(l, i, pat) ==
    /\ i + Len(pat) - 1 <= Len(l)
    /\ SubSeq(l, i, i + Len(pat) - 1) = pat

\* pat in l
Contains(l, pat) == \E i \in 1..Len(l) : OccursAt(l, i, pat)

\* The end of the longest run of characters of cls that starts at i
\* (i - 1 when l[i] is not in cls): what a greedy cls+ consumes.
RunEnd(l, i, cls) ==
    CHOOSE j \in (i - 1)..Len(l) :
        /\ \A k \in i..j : l[k] \in cls
        /\ (j = Len(l) \/ l[j + 1] \notin cls)

\* The leftmost position of a set of match positions: re.search returns the
\* first match.
Leftmost(S) == CHOOSE i \in S : \A j \in S : i <= j

NoMatch == <<>>

StagePrefix ==
    <<"P", "r", "o", "c", "e", "s", "s", "i", "n", "g", " ", "n", "o", "d", "e", ":",
      " ">>

FeaturePrefix ==
    <<"F", "e", "a", "t", "u", "r", "e", "s", ":", " ">>

\* stage_pattern = r"Processing node: (\w+)"; the result is NoMatch or <<group(1)>>.
StageMatch(l) ==
    LET at == {i \in 1..Len(l) :
                  /\ OccursAt(l, i, StagePrefix)
                  /\ RunEnd(l, i + Len(StagePrefix), WordChars) >= i + Len(StagePrefix)}
    IN IF at = {} THEN NoMatch
       ELSE LET b == Leftmost(at) + Len(StagePrefix)
            IN <<SubSeq(l, b, RunEnd(l, b, WordChars))>>

\* percent_pattern = r"(\d+)%"; the result is NoMatch or <<int(group(1))>>.
PercentMatch(l) ==
    LET at == {i \in 1..Len(l) :
                  /\ l[i] \in Digits
                  /\ RunEnd(l, i, Digits) < Len(l)
                  /\ l[RunEnd(l, i, Digits) + 1] = "%"}
    IN IF at = {} THEN NoMatch
       ELSE LET b == Leftmost(at)
            IN <<ParseInt(SubSeq(l, b, RunEnd(l, b, Digits)))>>

\* feature_pattern = r"Features: (\d+)/(\d+)"; NoMatch or <<done, total>>.
FeatureMatch(l) ==
    LET e1(i) == RunEnd(l, i + Len(FeaturePrefix), Digits)
        at == {i \in 1..Len(l) :
                  /\ OccursAt(l, i, FeaturePrefix)
                  /\ e1(i) >= i + Len(FeaturePrefix)
                  /\ e1(i) < Len(l)
                  /\ l[e1(i) + 1] = "/"
                  /\ RunEnd(l, e1(i) + 2, Digits) >= e1(i) + 2}
    IN IF at = {} THEN NoMatch
       ELSE LET b == Leftmost(at) + Len(FeaturePrefix)
                e == RunEnd(l, b, Digits)
            IN <<ParseInt(SubSeq(l, b, e)),
                 ParseInt(SubSeq(l, e + 2, RunEnd(l, e + 2, Digits)))>>

\* task_pattern = r"\[([^\]]+)\]"; NoMatch or <<group(1)>>.
TaskMatch(l) ==
    LET NotClose == {l[k] : k \in 1..Len(l)} \ {"]"}
        at == {i \in 1..Len(l) :
                  /\ l[i] = "["
                  /\ RunEnd(l, i + 1, NotClose) >= i + 1
                  /\ RunEnd(l, i + 1, NotClose) < Len(l)}
    IN IF at = {} THEN NoMatch
       ELSE LET b == Leftmost(at) + 1
            IN <<SubSeq(l, b, RunEnd(l, b, NotClose))>>

KwError ==
    <<"e", "r", "r", "o", "r">>

KwWarning ==
    <<"w", "a", "r", "n", "i", "n", "g">>

KwException ==
    <<"e", "x", "c", "e", "p", "t", "i", "o", "n">>

KwCreating ==
    <<"c", "r", "e", "a", "t", "i", "n", "g">>

KwComputing ==
    <<"c", "o", "m", "p", "u", "t", "i", "n", "g">>

KwProcessing ==
    <<"p", "r", "o", "c", "e", "s", "s", "i", "n", "g">>

KwStarting ==
    <<"s", "t", "a", "r", "t", "i", "n", "g">>

\* current_stage = "Initializing"
StageInitializing ==
    <<"I", "n", "i", "t", "i", "a", "l", "i", "z", "i", "n", "g">>

StageFeatureExtraction ==
    <<"F", "e", "a", "t", "u", "r", "e", "E", "x", "t", "r", "a", "c", "t", "i", "o",
      "n">>

StageMeshing ==
    <<"M", "e", "s", "h", "i", "n", "g">>

\* The lines the external process can write.
LineStage ==
    <<"P", "r", "o", "c", "e", "s", "s", "i", "n", "g", " ", "n", "o", "d", "e", ":",
      " ", "F", "e", "a", "t", "u", "r", "e", "E", "x", "t", "r", "a", "c", "t", "i",
      "o", "n", "\n">>

LinePercent45 ==
    <<"4", "5", "%", "\n">>

LineFeatures ==
    <<"F", "e", "a", "t", "u", "r", "e", "s", ":", " ", "1", "0", "/", "2", "0", "\n">>

LinePercent150 ==
    <<"1", "5", "0", "%", "\n">>

LineFeaturesZero ==
    <<"F", "e", "a", "t", "u", "r", "e", "s", ":", " ", "3", "/", "0", "\n">>

LinePercent0 ==
    <<"0", "%", "\n">>

LineWarning ==
    <<" ", " ", "W", "A", "R", "N", "I", "N", "G", ":", " ", "l", "o", "w", " ", "l",
      "i", "g", "h", "t", " ", "\n">>

LineTaskError ==
    <<"[", "E", "r", "r", "o", "r", "]", " ", "n", "o", "d", "e", " ", "f", "a", "i",
      "l", "e", "d", "\n">>

LineException ==
    <<"U", "n", "h", "a", "n", "d", "l", "e", "d", " ", "E", "x", "c", "e", "p", "t",
      "i", "o", "n", "\n">>

LineCreating ==
    <<"C", "r", "e", "a", "t", "i", "n", "g", " ", "m", "e", "s", "h", "\n">>

LineStagePercent ==
    <<"P", "r", "o", "c", "e", "s", "s", "i", "n", "g", " ", "n", "o", "d", "e", ":",
      " ", "M", "e", "s", "h", "i", "n", "g", " ", "4", "5", "%", "\n">>

LinePlain ==
    <<"d", "o", "n", "e", "\n">>

Lines ==
    {LineStage, LinePercent45, LineFeatures, LinePercent150,
     LineFeaturesZero, LinePercent0, LineWarning, LineTaskError,
     LineException, LineCreating, LineStagePercent, LinePlain}

\* ------------------------------------------------------- monitoring loop
\* pkg: run_meshroom() reads the standard output of the external process line
\* by line.  Every print of the loop is an event of the line.

StageChanged(stage) == [kind |-> "StageChanged", stage |-> stage]

\* (mutant) the update is printed under the initial stage
PercentUpdatedStale(stage, percent, remaining) ==
    [kind |-> "PercentUpdated", stage |-> StageInitializing, percent |-> percent,
     remaining |-> remaining]

\* print(f"[{current_stage}] Progress: {current_percent}% - Est. remaining: ...")
PercentUpdated(stage, percent, remaining) ==
    [kind |-> "PercentUpdated", stage |-> stage, percent |-> percent,
     remaining |-> remaining]

\* print(f"[Feature extraction] {done}/{total} images ({percent}%)")
FeatureProgress(done, total) == [kind |-> "FeatureProgress", done |-> done, total |-> total]

\* print(f"\n[!] {line.strip()}")
Alert(text) == [kind |-> "Alert", text |-> text]

\* print(line.strip())
Info(text) == [kind |-> "Info", text |-> text]

\* (mutant) every percent line is reported
PercentChangedAlways(new, cur) == TRUE

\* if new_percent != current_percent
PercentChanged(new, cur) == new # cur

\* time_per_percent = elapsed / max(current_percent, 1);
\* remaining = time_per_percent * (100 - current_percent).  The code computes
\* in floats; the model keeps the sign and the integer part.
Remaining(elapsed, percent) == (elapsed * (100 - percent)) \div Max(percent, 1)

\* elapsed = time.time() - start_time
Elapsed == {0, MaxElapsed}

\* (mutant) a feature line is reported whatever its total
FeatureReportedAlways(total) == TRUE

\* if total > 0
FeatureReported(total) == total > 0

\* if "error" in task.lower() or "warning" in task.lower()
IsAlertTask(task) ==
    \/ Contains(Lower(task), KwError)
    \/ Contains(Lower(task), KwWarning)

\* (mutant) the word exception is not looked for
IsAlertLineNoException(l) ==
    \/ Contains(Lower(l), KwError)
    \/ Contains(Lower(l), KwWarning)

\* if "error" in line.lower() or "warning" in line.lower() or "exception" in line.lower()
IsAlertLine(l) ==
    \/ Contains(Lower(l), KwError)
    \/ Contains(Lower(l), KwWarning)
    \/ Contains(Lower(l), KwException)

\* elif "creating" in ... or "computing" in ... or "processing" in ... or "starting" in ...
IsInfoLine(l) ==
    \/ Contains(Lower(l), KwCreating)
    \/ Contains(Lower(l), KwComputing)
    \/ Contains(Lower(l), KwProcessing)
    \/ Contains(Lower(l), KwStarting)

\* The external process of Popen(stdout=PIPE, stderr=PIPE): op is what it
\* does next ("out": write a line to its standard output, "err": write a
\* chunk to its standard error, "exit"; "done" after the exit, "none" before
\* the start), outq the unread lines of the stdout pipe, errq the number of
\* unread chunks in the stderr pipe, werr the chunks written so far.  cap is
\* the capacity of each pipe and elimit the chunks the process writes to its
\* standard error at most.
ProcessIdle(c, e) ==
    [op |-> "none", outq |-> <<>>, errq |-> 0, werr |-> 0, cap |-> c, elimit |-> e]

\* What the process may do next: it has written wout lines to its standard
\* output and exits after finitely many writes.
ProcessOps(pr, wout, limit) ==
    {"exit"} \cup (IF wout < limit THEN {"out"} ELSE {})
             \cup (IF pr.werr < pr.elimit THEN {"err"} ELSE {})

\* A write blocks while the pipe is full.
PipeFull(n, cap) == n >= cap

\* The locals of the loop when the process was started; start_time is
\* time.time() at that moment, and the model counts time from there.
MonitorStart ==
    [running |-> TRUE, stage |-> StageInitializing, percent |-> 0, start |-> 0,
     lines |-> <<>>, out |-> <<>>]

\* (mutant) a new stage starts at percent 0
StageUpdateResetting(m, sm) ==
    IF sm # NoMatch THEN [m EXCEPT !.stage = sm[1], !.percent = 0] ELSE m

\* if stage_match: current_stage = stage_match.group(1)
StageUpdate(m, sm) ==
    IF sm # NoMatch THEN [m EXCEPT !.stage = sm[1]] ELSE m

\* One iteration of `for line in process.stdout`: m.lines gets the line and
\* m.out the sequence of the events of the line, in the order of the prints.
\* elapsed is time.time() - start_time when the line is handled.
MonitorIter(m, l, elapsed) ==
    LET sm      == StageMatch(l)
        ms      == StageUpdate(m, sm)
        stage   == ms.stage
        evStage == IF sm # NoMatch THEN <<StageChanged(stage)>> ELSE <<>>
        pm      == PercentMatch(l)
        upd     == pm # NoMatch /\ PercentChanged(pm[1], ms.percent)
        percent == IF upd THEN pm[1] ELSE ms.percent
        evPct   == IF upd
                   THEN <<PercentUpdated(stage, percent, Remaining(elapsed, percent))>>
                   ELSE <<>>
        fm      == FeatureMatch(l)
        evFeat  == IF fm # NoMatch /\ FeatureReported(fm[2])
                   THEN <<FeatureProgress(fm[1], fm[2])>> ELSE <<>>
        tm      == TaskMatch(l)
        evTask  == IF tm # NoMatch /\ IsAlertTask(Strip(tm[1]))
                   THEN <<Alert(Strip(l))>> ELSE <<>>
        evLine  == IF IsAlertLine(l) THEN <<Alert(Strip(l))>>
                   ELSE IF IsInfoLine(l) THEN <<Info(Strip(l))>>
                   ELSE <<>>
    IN [ms EXCEPT !.percent = percent,
                 !.lines = Append(@, l),
                 !.out = Append(@, evStage \o evPct \o evFeat \o evTask \o evLine)]

\* -------------------------------------------------------- output discovery
\* pkg: what process() finds in the output directory after run_meshroom().
\* cache: MeshroomCache exists (a directory); tex: the entries of the cache
\* whose name contains "texturing", in the order of os.listdir; a run folder
\* has a modification time and a set of files, named by their extensions.

ModelExtensions == {"obj", "mtl", "abc", "ply"}

RunFolders == [mtime : 1..MaxMtime, files : {{}, {"mtl", "png"}, {"obj", "mtl", "png"}}]

SeqsUpTo(S, n) == UNION {[1..k -> S] : k \in 0..n}

TexturingEntries ==
    {[isdir |-> FALSE, subdirs |-> <<>>]}
    \cup {[isdir |-> TRUE, subdirs |-> sd] : sd \in SeqsUpTo(RunFolders, MaxSubdirs)}

OutputDirs ==
    {[cache |-> FALSE, tex |-> <<>>, project |-> p] : p \in BOOLEAN}
    \cup {[cache |-> TRUE, tex |-> tx, project |-> p] :
             tx \in SeqsUpTo(TexturingEntries, 1), p \in BOOLEAN}

\* (mutant) the run folders sorted oldest first
OldestFirst(subdirs) ==
    CHOOSE i \in DOMAIN subdirs :
       \A j \in DOMAIN subdirs :
          \/ subdirs[j].mtime > subdirs[i].mtime
          \/ subdirs[j].mtime = subdirs[i].mtime /\ i <= j

\* sorted(subdirs, key=getmtime, reverse=True)[0]: the sort is stable, so of
\* the folders with the greatest time the first listed comes first.
NewestFirst(subdirs) ==
    CHOOSE i \in DOMAIN subdirs :
       \A j \in DOMAIN subdirs :
          \/ subdirs[j].mtime < subdirs[i].mtime
          \/ subdirs[j].mtime = subdirs[i].mtime /\ i <= j

\* texturing_dir: NoMatch (None) or <<index of the run folder>>
TexturingDir(fs) ==
    IF ~fs.cache THEN NoMatch
    ELSE IF fs.tex = <<>> THEN NoMatch
    ELSE IF ~fs.tex[1].isdir THEN NoMatch
    ELSE IF fs.tex[1].subdirs = <<>> THEN NoMatch
    ELSE <<NewestFirst(fs.tex[1].subdirs)>>

\* The value process() returns after the discovery.
DiscoverResult(fs) ==
    LET td == TexturingDir(fs)
        output_files == IF td = NoMatch THEN {}
                        ELSE fs.tex[1].subdirs[td[1]].files \cap ModelExtensions
    IN IF output_files # {} /\ "obj" \in output_files
       THEN [kind |-> "model", subdir |-> td[1]]
       ELSE IF fs.project THEN [kind |-> "project"]
       ELSE [kind |-> "output_dir"]

\* ------------------------------------------------------------ orchestrator

\* pkg: the monitoring loop is not running.
MonitorIdle == [running |-> FALSE]

\* pkg: the output discovery has not run.
NoDiscovery == [result |-> "none"]

\* (mutant) the check of the capture is missing
CapOpenedUnchecked(v) == TRUE

\* cap.isOpened() / video.isOpened()
CapOpened(v) == v.openable

\* (mutant) the zero check never fires
NoFramesExtractedNegative(extracted) == extracted < 0

\* if extracted_count == 0
NoFramesExtracted(extracted) == extracted = 0

\* self.extract_metadata = extract_metadata (line 31) replaces the method of
\* the same name on the instance: "if self.extract_metadata:
\* self.extract_metadata()" calls the bool and raises TypeError.
MetadataCallRaises(flag) == flag

\* (mutant) the exit code of the process is not looked at
MeshroomSucceededAnyExit(outcome) == outcome # "launch_failed"

\* run_meshroom: success iff the process was started and exited with code 0
\* (subprocess.run(check=True) / process.returncode != 0).
MeshroomSucceeded(outcome) == outcome = "exit0"

\* (mutant) the exception of shutil.rmtree escapes cleanup()
CleanupVerdictEscalated(v, raised) == IF raised THEN "fail" ELSE v

\* cleanup(): the exception of shutil.rmtree is caught and printed.
CleanupVerdict(v, raised) == v

\* main: return 0 if success else 1  /  sys.exit(1) in the handler, sys.exit(0).
ExitCode(v) == IF v = "ok" THEN 0 ELSE 1

\* An exception that leaves process() through its finally clause.
Raise(err) ==
    /\ verdict' = "fail"
    /\ error' = err
    /\ failedIn' = pc
    /\ pc' = "Cleanup"

\* An exception caught by main() before process() was entered.
Abort(err) ==
    /\ verdict' = "fail"
    /\ error' = err
    /\ failedIn' = pc
    /\ pc' = "Failed"
    /\ exitCode' = 1

\* The state of a run before main() has done anything.
RunStart ==
    /\ pc = "Idle"
    /\ temp_frames_dir = "absent"
    /\ video_info = [fps |-> 0, rotation |-> 0]
    /\ backend = "none"
    /\ smp = SamplerIdle
    /\ meshroom = "not_started"
    /\ metadata = "not_run"
    /\ verdict = "pending"
    /\ error = "none"
    /\ failedIn = "none"
    /\ cleanup_state = "not_run"
    /\ exitCode = -1
    /\ rotate = Auto
    /\ mon = MonitorIdle
    /\ discovery = NoDiscovery

Videos ==
    {[exists |-> FALSE, openable |-> FALSE, frames |-> 0, tag |-> 0],
     [exists |-> TRUE, openable |-> FALSE, frames |-> 0, tag |-> 0]}
    \cup {[exists |-> TRUE, openable |-> TRUE, frames |-> n, tag |-> 0] : n \in 0..MaxFrames}

\* the pkg variant has none of these options and never looks for ffmpeg
PkgOptions ==
    variant = "pkg" =>
       /\ ~cfg.detect_blur /\ ~cfg.extract_metadata
       /\ cfg.start_time = NoTime /\ cfg.duration = NoTime
       /\ cfg.rotate = "auto"
       /\ ~ffmpeg_available

\* Runs on valid sample requests: stride >= 1, rotation auto, any window.
Init ==
    /\ variant \in {"top", "pkg"}
    /\ video \in Videos
    /\ cfg \in [frame_interval : Strides, detect_blur : BOOLEAN,
                extract_metadata : BOOLEAN, start_time : TimeArgs, duration : TimeArgs,
                rotate : {"auto"}]
    /\ ffmpeg_available \in BOOLEAN
    /\ mlimit = 1
    /\ proc = ProcessIdle(1, 1)
    /\ PkgOptions
    /\ RunStart

\* Runs on a one-frame video in which the external process writes up to
\* MaxLines lines.
InitMonitor ==
    /\ variant \in {"top", "pkg"}
    /\ video = [exists |-> TRUE, openable |-> TRUE, frames |-> 1, tag |-> 0]
    /\ cfg \in [frame_interval : {1}, detect_blur : BOOLEAN,
                extract_metadata : {FALSE}, start_time : {NoTime}, duration : {NoTime},
                rotate : {"auto"}]
    /\ ffmpeg_available \in BOOLEAN
    /\ mlimit = MaxLines
    /\ proc = ProcessIdle(1, 1)
    /\ PkgOptions
    /\ RunStart

\* Runs on a one-frame video, with every pipe capacity and every number of
\* chunks written to the standard error up to one more than the capacity.
InitPipes ==
    /\ variant \in {"top", "pkg"}
    /\ video = [exists |-> TRUE, openable |-> TRUE, frames |-> 1, tag |-> 0]
    /\ cfg \in [frame_interval : {1}, detect_blur : BOOLEAN,
                extract_metadata : {FALSE}, start_time : {NoTime}, duration : {NoTime},
                rotate : {"auto"}]
    /\ ffmpeg_available \in BOOLEAN
    /\ mlimit = 1
    /\ proc \in {ProcessIdle(c, e) : c \in 1..MaxPipe, e \in 0..(MaxPipe + 1)}
    /\ PkgOptions
    /\ RunStart

\* Runs with stride 1 and with a stride whose half exceeds the look-ahead
\* cap, on a video long enough for a whole look-ahead scan.
InitLookAhead ==
    /\ variant \in {"top", "pkg"}
    /\ video = [exists |-> TRUE, openable |-> TRUE, frames |-> LookAheadCap + 3,
                tag |-> 0]
    /\ cfg \in [frame_interval : {1, 2 * LookAheadCap + 2}, detect_blur : BOOLEAN,
                extract_metadata : {FALSE}, start_time : {NoTime}, duration : {NoTime},
                rotate : {"auto"}]
    /\ ffmpeg_available \in BOOLEAN
    /\ mlimit = 1
    /\ proc = ProcessIdle(1, 1)
    /\ PkgOptions
    /\ RunStart

\* the values of the rotation tag of a video
RotationTags == {0, 90, 180, 270, 45}

\* Runs on every rotation argument and every rotation tag, on a video of one
\* or two frames.
InitRotate ==
    /\ variant \in {"top", "pkg"}
    /\ video \in {[exists |-> TRUE, openable |-> TRUE, frames |-> n, tag |-> g] :
                    n \in 1..2, g \in RotationTags}
    /\ cfg \in [frame_interval : {1}, detect_blur : BOOLEAN,
                extract_metadata : {FALSE}, start_time : {NoTime}, duration : {NoTime},
                rotate : RotateArgs]
    /\ ffmpeg_available \in BOOLEAN
    /\ mlimit = 1
    /\ proc = ProcessIdle(1, 1)
    /\ PkgOptions
    /\ RunStart

\* Runs on every request the argument parser accepts, on the whole video.
InitArgs ==
    /\ variant \in {"top", "pkg"}
    /\ video \in Videos
    /\ cfg \in [frame_interval : AllStrides, detect_blur : BOOLEAN,
                extract_metadata : {FALSE}, start_time : {NoTime}, duration : {NoTime},
                rotate : RotateArgs]
    /\ ffmpeg_available \in BOOLEAN
    /\ mlimit = 1
    /\ proc = ProcessIdle(1, 1)
    /\ PkgOptions
    /\ RunStart

\* main() up to the construction of the plugin.  The top variant rejects a
\* path that is not a file; the pkg variant validates nothing.
MainValidate ==
    /\ pc = "Idle"
    /\ IF variant = "top" /\ ~video.exists
       THEN /\ Abort("VideoFileNotFound")
            /\ UNCHANGED <<temp_frames_dir, rotate>>
       ELSE /\ pc' = "Constructing"
            /\ rotate' = IF variant = "top" THEN NormalizeRotate(cfg.rotate) ELSE rotate
            /\ UNCHANGED <<verdict, error, failedIn, exitCode, temp_frames_dir>>
    /\ UNCHANGED <<variant, video, cfg, ffmpeg_available, video_info, backend, smp,
                   meshroom, metadata, cleanup_state, mlimit, mon, discovery, proc>>

\* __init__ up to os.makedirs: the Meshroom binary is looked up, the
\* temporary directory is created, then the output directory.
Construct ==
    /\ pc = "Constructing"
    /\ \E binFound \in BOOLEAN, dirOk \in BOOLEAN :
          IF ~binFound
          THEN /\ Abort("MeshroomBinaryNotFound")
               /\ UNCHANGED temp_frames_dir
          ELSE IF ~dirOk
          THEN /\ Abort("OutputDirError")
               /\ temp_frames_dir' = "present"
          ELSE /\ pc' = "Probing"
               /\ temp_frames_dir' = "present"
               /\ UNCHANGED <<verdict, error, failedIn, exitCode>>
    /\ UNCHANGED <<variant, video, cfg, ffmpeg_available, video_info, backend, smp,
                   meshroom, metadata, cleanup_state, rotate, mlimit, mon, discovery, proc>>

\* _get_video_info(): fps as before; the rotation is the number after
\* "rotate :" in the output of ffmpeg, and stays 0 when ffmpeg is not
\* available (the OpenCV fallback does not look for it) or prints no such tag.
GetVideoInfo(v, ffmpeg) ==
    [fps |-> IF v.openable THEN Fps ELSE 0,
     rotation |-> IF ffmpeg /\ v.openable THEN v.tag ELSE 0]

\* top: self.video_info = self._get_video_info(), then _print_video_info() if
\* verbose, the last steps of __init__; the ffmpeg probe is a subprocess call
\* that may raise, an unreadable source only leaves fps at 0.
ProbeTop ==
    /\ pc = "Probing" /\ variant = "top"
    /\ \E raises \in {FALSE, ffmpeg_available}, verbose \in BOOLEAN :
          IF raises
          THEN /\ Abort("ProbeError")
               /\ UNCHANGED video_info
          ELSE IF verbose /\ cfg.frame_interval = 0
          \* _print_video_info: frame_count // self.frame_interval
          THEN /\ Abort("ZeroDivisionError")
               /\ video_info' = GetVideoInfo(video, ffmpeg_available)
          ELSE /\ video_info' = GetVideoInfo(video, ffmpeg_available)
               /\ pc' = "Sampling"
               /\ UNCHANGED <<verdict, error, failedIn, exitCode>>
    /\ UNCHANGED <<variant, video, cfg, ffmpeg_available, temp_frames_dir, backend, smp,
                   meshroom, metadata, cleanup_state, rotate, mlimit, mon, discovery, proc>>

\* pkg: process() enters extract_frames, which reads the metadata (failures
\* absorbed), opens the video and raises ValueError if it cannot.
ProbePkg ==
    /\ pc = "Probing" /\ variant = "pkg"
    /\ IF ~CapOpened(video)
       THEN /\ Raise("CouldNotOpenVideo")
            /\ UNCHANGED <<video_info, backend, smp>>
       ELSE IF cfg.frame_interval = 0
       \* frames_to_extract = frame_count // self.frame_interval
       THEN /\ Raise("ZeroDivisionError")
            /\ UNCHANGED <<video_info, backend, smp>>
       ELSE /\ video_info' = [fps |-> Fps, rotation |-> 0]
            /\ backend' = "opencv"
            /\ smp' = [SamplerIdle EXCEPT !.phase = "loop",
                                          !.frames_to_process = video.frames]
            /\ pc' = "Sampling"
            /\ UNCHANGED <<verdict, error, failedIn>>
    /\ UNCHANGED <<variant, video, cfg, ffmpeg_available, temp_frames_dir,
                   meshroom, metadata, cleanup_state, exitCode, rotate, mlimit, mon, discovery, proc>>

\* top: extract_frames() choosing extract_frames_ffmpeg, which runs ffmpeg
\* and counts the files it left in the temporary directory.
ExtractFFmpeg ==
    /\ pc = "Sampling" /\ variant = "top" /\ smp.phase = "enter"
    /\ ffmpeg_available /\ ~cfg.detect_blur
    /\ backend' = "ffmpeg"
    /\ \E ok \in {FALSE, video.openable} :
          IF ~ok
          THEN /\ Raise("FFmpegFailed")
               /\ UNCHANGED smp
          ELSE /\ \E k \in 0..video.frames :
                     smp' = [smp EXCEPT
                               !.phase = "done", !.extracted = k,
                               !.vf = VfFilter(EffectiveRotation(rotate,
                                                                 video_info.rotation))]
               /\ UNCHANGED <<pc, verdict, error, failedIn>>
    /\ UNCHANGED <<variant, video, cfg, ffmpeg_available, temp_frames_dir, video_info,
                   meshroom, metadata, cleanup_state, exitCode, rotate, mlimit, mon, discovery, proc>>

\* top: extract_frames() choosing extract_frames_opencv, up to the loop.
ExtractOpenCV ==
    /\ pc = "Sampling" /\ variant = "top" /\ smp.phase = "enter"
    /\ ~(ffmpeg_available /\ ~cfg.detect_blur)
    /\ backend' = "opencv"
    /\ IF ~CapOpened(video)
       THEN /\ Raise("CouldNotOpenVideo")
            /\ UNCHANGED smp
       ELSE IF cfg.frame_interval = 0
       \* frames_to_extract = frames_to_process // self.frame_interval
       THEN /\ Raise("ZeroDivisionError")
            /\ UNCHANGED smp
       ELSE /\ smp' = EnterLoop(cfg, video_info, video.frames)
            /\ UNCHANGED <<pc, verdict, error, failedIn>>
    /\ UNCHANGED <<variant, video, cfg, ffmpeg_available, temp_frames_dir, video_info,
                   meshroom, metadata, cleanup_state, exitCode, rotate, mlimit, mon, discovery, proc>>

\* top: one iteration of the loop of extract_frames_opencv.
SampleStepTop ==
    /\ pc = "Sampling" /\ variant = "top" /\ smp.phase = "loop"
    /\ LoopGuard(smp)
    /\ \E cs \in (IF cfg.detect_blur THEN FrameScores(smp, smp.pos) ELSE {0}) :
       \E ah \in [1..(IF cfg.detect_blur /\ cs < BlurThreshold
                      THEN LookAheadLimit(cfg.frame_interval) ELSE 0) -> Scores] :
          smp' = Rotated(smp, OpenCVIter(smp, cfg.detect_blur, cfg.frame_interval,
                                         video.frames, cs, ah),
                         rotate, video_info.rotation)
    /\ UNCHANGED <<variant, video, cfg, ffmpeg_available, pc, temp_frames_dir, video_info,
                   backend, meshroom, metadata, verdict, error, failedIn,
                   cleanup_state, exitCode, rotate, mlimit, mon, discovery, proc>>

\* top: the loop condition fails; cap.release(); return extracted.
LoopExitTop ==
    /\ pc = "Sampling" /\ variant = "top" /\ smp.phase = "loop"
    /\ ~LoopGuard(smp)
    /\ smp' = [smp EXCEPT !.phase = "done"]
    /\ UNCHANGED <<variant, video, cfg, ffmpeg_available, pc, temp_frames_dir, video_info,
                   backend, meshroom, metadata, verdict, error, failedIn,
                   cleanup_state, exitCode, rotate, mlimit, mon, discovery, proc>>

\* pkg: one iteration of the loop of extract_frames.
SampleStepPkg ==
    /\ pc = "Sampling" /\ variant = "pkg" /\ smp.phase = "loop"
    /\ smp' = PkgIter(smp, cfg.frame_interval, video.frames)
    /\ UNCHANGED <<variant, video, cfg, ffmpeg_available, pc, temp_frames_dir, video_info,
                   backend, meshroom, metadata, verdict, error, failedIn,
                   cleanup_state, exitCode, rotate, mlimit, mon, discovery, proc>>

\* process() after extract_frames returned: the zero check and, in the top
\* variant, the metadata step.
AfterExtract ==
    /\ pc = "Sampling" /\ smp.phase = "done"
    /\ IF NoFramesExtracted(smp.extracted)
       THEN /\ Raise("NoFramesExtracted")
            /\ UNCHANGED metadata
       ELSE IF variant = "top" /\ MetadataCallRaises(cfg.extract_metadata)
       THEN /\ Raise("TypeError")
            /\ metadata' = "raised"
       ELSE /\ pc' = "AwaitingExternalProcess"
            /\ UNCHANGED <<metadata, verdict, error, failedIn>>
    /\ UNCHANGED <<variant, video, cfg, ffmpeg_available, temp_frames_dir, video_info,
                   backend, smp, meshroom, cleanup_state, exitCode, rotate, mlimit, mon, discovery, proc>>

\* top: run_meshroom(): the external process is started and awaited.
RunMeshroom ==
    /\ pc = "AwaitingExternalProcess" /\ variant = "top"
    /\ \E outcome \in {"launch_failed", "exit0", "exit_nonzero"} :
          /\ meshroom' = outcome
          /\ IF ~MeshroomSucceeded(outcome)
             THEN Raise("MeshroomFailed")
             ELSE /\ pc' = "Cleanup"
                  /\ verdict' = "ok"
                  /\ UNCHANGED <<error, failedIn>>
    /\ UNCHANGED <<variant, video, cfg, ffmpeg_available, temp_frames_dir, video_info,
                   backend, smp, metadata, cleanup_state, exitCode, rotate, mlimit, mon, discovery, proc>>

\* pkg: run_meshroom() up to the monitoring loop: subprocess.Popen, which
\* raises when the binary cannot be started.
StartMeshroom ==
    /\ pc = "AwaitingExternalProcess" /\ variant = "pkg"
    /\ meshroom = "not_started"
    /\ \E launched \in BOOLEAN :
          IF launched
          THEN /\ meshroom' = "running"
               /\ mon' = MonitorStart
               /\ \E op \in ProcessOps(proc, 0, mlimit) : proc' = [proc EXCEPT !.op = op]
               /\ UNCHANGED <<pc, verdict, error, failedIn>>
          ELSE /\ meshroom' = "launch_failed"
               /\ Raise("MeshroomFailed")
               /\ UNCHANGED <<mon, proc>>
    /\ UNCHANGED <<variant, video, cfg, ffmpeg_available, temp_frames_dir, video_info,
                   backend, smp, metadata, cleanup_state, exitCode, rotate, mlimit,
                   discovery>>

\* The variables the external process does not touch.
ProcessFrame ==
    UNCHANGED <<variant, video, cfg, ffmpeg_available, pc, temp_frames_dir,
                video_info, backend, smp, meshroom, metadata, verdict, error,
                failedIn, cleanup_state, exitCode, rotate, mlimit, mon, discovery>>

\* The external process writes a line to its standard output, when the pipe
\* has room for it.
ProcWriteStdout ==
    /\ pc = "AwaitingExternalProcess" /\ mon.running
    /\ proc.op = "out"
    /\ ~PipeFull(Len(proc.outq), proc.cap)
    /\ \E l \in Lines :
       \E op \in ProcessOps(proc, Len(mon.lines) + Len(proc.outq) + 1, mlimit) :
          proc' = [proc EXCEPT !.outq = Append(@, l), !.op = op]
    /\ ProcessFrame

\* The external process writes a chunk to its standard error, when the pipe
\* has room for it; nothing reads that pipe while the loop runs.
ProcWriteStderr ==
    /\ pc = "AwaitingExternalProcess" /\ mon.running
    /\ proc.op = "err"
    /\ ~PipeFull(proc.errq, proc.cap)
    /\ LET wr == [proc EXCEPT !.errq = @ + 1, !.werr = @ + 1]
       IN \E op \in ProcessOps(wr, Len(mon.lines) + Len(proc.outq), mlimit) :
             proc' = [wr EXCEPT !.op = op]
    /\ ProcessFrame

\* The external process exits, which closes its ends of the pipes.
ProcExit ==
    /\ pc = "AwaitingExternalProcess" /\ mon.running
    /\ proc.op = "exit"
    /\ proc' = [proc EXCEPT !.op = "done"]
    /\ ProcessFrame

\* pkg: the loop takes the next line out of the stdout pipe and handles it;
\* `for line in process.stdout` waits while the pipe is empty and open.
MonitorLine ==
    /\ pc = "AwaitingExternalProcess" /\ mon.running
    /\ proc.outq # <<>>
    /\ \E elapsed \in Elapsed : mon' = MonitorIter(mon, Head(proc.outq), elapsed)
    /\ proc' = [proc EXCEPT !.outq = Tail(@)]
    /\ UNCHANGED <<variant, video, cfg, ffmpeg_available, pc, temp_frames_dir,
                   video_info, backend, smp, meshroom, metadata, verdict, error,
                   failedIn, cleanup_state, exitCode, rotate, mlimit, discovery>>

\* pkg: the standard output is at its end (the process has exited and the
\* pipe is empty); process.wait(), the test of the return code and, for a
\* code other than 0, process.stderr.read().  The locals of the loop end with
\* run_meshroom().
MeshroomExit ==
    /\ pc = "AwaitingExternalProcess" /\ mon.running
    /\ proc.op = "done" /\ proc.outq = <<>>
    /\ \E outcome \in {"exit0", "exit_nonzero"} :
          /\ meshroom' = outcome
          /\ mon' = MonitorIdle
          /\ proc' = ProcessIdle(proc.cap, proc.elimit)
          /\ IF ~MeshroomSucceeded(outcome)
             THEN Raise("MeshroomFailed")
             ELSE /\ pc' = "DiscoveringOutput"
                  /\ UNCHANGED <<verdict, error, failedIn>>
    /\ UNCHANGED <<variant, video, cfg, ffmpeg_available, temp_frames_dir, video_info,
                   backend, smp, metadata, cleanup_state, exitCode, rotate, mlimit,
                   discovery>>

\* pkg: the search for output files, whose three results all return a path.
DiscoverOutput ==
    /\ pc = "DiscoveringOutput"
    /\ \E fs \in OutputDirs :
          discovery' = [fs |-> fs, result |-> DiscoverResult(fs)]
    /\ verdict' = "ok"
    /\ pc' = "Cleanup"
    /\ UNCHANGED <<variant, video, cfg, ffmpeg_available, temp_frames_dir, video_info,
                   backend, smp, meshroom, metadata, error, failedIn,
                   cleanup_state, exitCode, rotate, mlimit, mon, proc>>

\* The finally clause of process(): cleanup(), then main() turns the outcome
\* of process() into the exit code.
Cleanup ==
    /\ pc = "Cleanup"
    /\ \E raised \in BOOLEAN :
          /\ cleanup_state' = IF raised THEN "rmtree_failed" ELSE "removed"
          /\ temp_frames_dir' = IF raised THEN temp_frames_dir ELSE "removed"
          /\ verdict' = CleanupVerdict(verdict, raised)
          /\ pc' = IF verdict' = "ok" THEN "Done" ELSE "Failed"
          /\ exitCode' = ExitCode(verdict')
    /\ UNCHANGED <<variant, video, cfg, ffmpeg_available, video_info, backend, smp,
                   meshroom, metadata, error, failedIn, rotate, mlimit, mon, discovery, proc>>

Next ==
    \/ MainValidate
    \/ Construct
    \/ ProbeTop
    \/ ProbePkg
    \/ ExtractFFmpeg
    \/ ExtractOpenCV
    \/ SampleStepTop
    \/ LoopExitTop
    \/ SampleStepPkg
    \/ AfterExtract
    \/ RunMeshroom
    \/ StartMeshroom
    \/ ProcWriteStdout
    \/ ProcWriteStderr
    \/ ProcExit
    \/ MonitorLine
    \/ MeshroomExit
    \/ DiscoverOutput
    \/ Cleanup

Spec == Init /\ [][Next]_vars

SpecArgs == InitArgs /\ [][Next]_vars

SpecMonitor == InitMonitor /\ [][Next]_vars

SpecLookAhead == InitLookAhead /\ [][Next]_vars

SpecRotate == InitRotate /\ [][Next]_vars

SpecPipes == InitPipes /\ [][Next]_vars

\* =================================================================== claims

SourceErrors == {"CouldNotOpenVideo", "FFmpegFailed"}
CeilDiv(a, b) == (a + b - 1) \div b
WholeVideo == cfg.start_time = NoTime /\ cfg.duration = NoTime
OpenCVDone == backend = "opencv" /\ smp.phase = "done"

\* C1: with blur detection enabled the OpenCV sampler accepts at least as many
\* frames as the same loop run with blur detection disabled on the same
\* source, window and stride.
C1_BlurNeverFewer ==
    (variant = "top" /\ OpenCVDone /\ cfg.detect_blur)
        => smp.extracted >=
              RunNoBlur(EnterLoop(cfg, video_info, video.frames),
                        cfg.frame_interval, video.frames).extracted

\* C2: with blur detection disabled and no window the sampling loop accepts
\* exactly ceil(N / s) frames; for N = 0 it accepts none and the run fails with
\* the no-frames-extracted error and exit code 1.
C2_NoBlurCeil ==
    (OpenCVDone /\ ~cfg.detect_blur /\ WholeVideo) =>
        /\ smp.extracted = CeilDiv(video.frames, cfg.frame_interval)
        /\ (video.frames = 0 /\ pc # "Sampling") =>
              /\ smp.extracted = 0
              /\ error = "NoFramesExtracted"
              /\ pc \in {"Cleanup", "Failed"}
              /\ (pc = "Failed" => exitCode = 1)

C2_Witness ==
    /\ OpenCVDone /\ ~cfg.detect_blur /\ WholeVideo
    /\ video.frames % cfg.frame_interval # 0
    /\ cfg.frame_interval > 1
    /\ smp.extracted >= 2

\* C3: at every point of a run of the OpenCV loops the frames persisted so far
\* carry the indices 0 .. extracted-1, in this order, none skipped or reused.
C3_GapFreeIndices ==
    backend = "opencv" =>
        /\ Len(smp.saved) = smp.extracted
        /\ \A i \in 1..Len(smp.saved) : smp.saved[i].index = i - 1

C3_Witness ==
    /\ backend = "opencv" /\ cfg.detect_blur
    /\ smp.extracted >= 2
    /\ Len(smp.readLog) > smp.count
    /\ \E i \in 1..Len(smp.saved) : smp.saved[i].score >= BlurThreshold
    /\ smp.skipped_blur >= 1

\* C4: once the temporary frame directory was created, a run that has ended
\* (Done or Failed) has attempted Cleanup.
C4_CleanupAlwaysRuns ==
    (pc \in Final /\ temp_frames_dir # "absent") => cleanup_state # "not_run"

\* C5: when the metadata step fails, the external process is still invoked and
\* alone decides the verdict of the run.
C5_MetadataFailureAbsorbed ==
    (metadata = "raised" /\ pc \in Final) =>
        /\ meshroom # "not_started"
        /\ (exitCode = 0 <=> meshroom = "exit0")

\* C6: exit code 0 only if at least one frame was extracted and the external
\* process ran to completion with exit code 0; no frame, or a non-zero exit of
\* the external process, gives exit code 1.
C6_ExitCodeZeroOnlyIf ==
    /\ exitCode = 0 => (smp.extracted >= 1 /\ meshroom = "exit0")
    /\ (pc \in Final /\ (smp.extracted = 0 \/ meshroom = "exit_nonzero")) => exitCode = 1

C6_Witness ==
    /\ pc = "Done" /\ exitCode = 0
    /\ meshroom = "exit0" /\ smp.extracted >= 1

\* C7: if sampling fails or yields no frame, the external process is never
\* started: the run is in Cleanup or Failed from then on.
C7_NoReconstructionWithoutFrames ==
    /\ failedIn = "Sampling" => (meshroom = "not_started" /\ pc \in {"Cleanup", "Failed"})
    /\ (smp.phase = "done" /\ smp.extracted = 0) =>
          (meshroom = "not_started" /\ pc \in {"Sampling", "Cleanup", "Failed"})

C7_Witness ==
    /\ pc = "Failed" /\ error = "NoFramesExtracted"
    /\ smp.phase = "done" /\ smp.extracted = 0
    /\ cleanup_state # "not_run"

Rank(s) ==
    CASE s \in {"Idle", "Constructing"} -> 0
      [] s = "Probing" -> 1
      [] s = "Sampling" -> 2
      [] s = "AwaitingExternalProcess" -> 3
      [] s = "DiscoveringOutput" -> 4
      [] s = "Cleanup" -> 5
      [] s \in Final -> 6

\* C8: the states are visited in the fixed order, never backwards; a failure
\* raised while the temporary directory exists is followed next by Cleanup,
\* and Cleanup of a failed run is followed by Failed with the same error.
C8_SequentialOrder ==
    [][/\ Rank(pc') >= Rank(pc)
       /\ (error = "none" /\ error' # "none" /\ temp_frames_dir' # "absent")
              => pc' = "Cleanup"
       /\ (pc = "Cleanup" /\ error # "none") => (pc' = "Failed" /\ error' = error)]_vars

\* C9: whether or not the removal of the temporary directory fails, a run that
\* went through Cleanup ends Done with exit code 0 iff no error was raised
\* before Cleanup, and Failed with exit code 1 otherwise.
C9_CleanupNeverChangesVerdict ==
    (pc \in Final /\ cleanup_state # "not_run") =>
        /\ pc = "Done" <=> error = "none"
        /\ exitCode = IF error = "none" THEN 0 ELSE 1
        /\ verdict = IF error = "none" THEN "ok" ELSE "fail"

C9_Witness ==
    /\ pc = "Done" /\ cleanup_state = "rmtree_failed" /\ exitCode = 0

\* C10 (as stated): a source that cannot be opened makes the run fail in
\* Probing with the source-unreadable error; Cleanup executes; exit code 1.
C10_FailsInProbingWithCleanup ==
    (~video.openable /\ pc \in Final) =>
        /\ failedIn = "Probing"
        /\ error = "CouldNotOpenVideo"
        /\ cleanup_state # "not_run"
        /\ exitCode = 1

\* C10 (amended): a source that cannot be opened is never read and never
\* reaches the external process, and the run ends with exit code 1.  The top
\* variant rejects a missing path in main(), before the temporary directory
\* exists and without Cleanup; otherwise the error is raised on entry to
\* extract_frames (could-not-open, or the failure of ffmpeg), never by the
\* zero-frames check, and Cleanup executes before the run ends.
C10_UnreadableSourceFails ==
    ~video.openable =>
        /\ smp.readLog = <<>> /\ smp.extracted = 0
        /\ meshroom = "not_started"
        /\ pc \notin {"AwaitingExternalProcess", "DiscoveringOutput", "Done"}
        /\ pc = "Failed" =>
              /\ exitCode = 1
              /\ error \in SourceErrors \cup {"VideoFileNotFound", "MeshroomBinaryNotFound",
                                              "OutputDirError", "ProbeError"}
        /\ error = "VideoFileNotFound" =>
              (variant = "top" /\ ~video.exists /\ temp_frames_dir = "absent"
               /\ cleanup_state = "not_run")
        /\ (pc = "Failed" /\ error \in SourceErrors) => cleanup_state # "not_run"

C10_Witness ==
    /\ ~video.openable /\ video.exists
    /\ pc = "Failed" /\ error = "CouldNotOpenVideo"
    /\ cleanup_state # "not_run" /\ exitCode = 1


\* An invalid sample request: a stride below 1, or a rotation outside
\* auto / 0 / 90 / 180 / 270.
InvalidRequest ==
    \/ cfg.frame_interval < 1
    \/ cfg.rotate \notin {"auto", "0", "90", "180", "270"}

\* C11: an invalid sample request (stride < 1, or a rotation outside
\* auto/0/90/180/270) ends with exit code 1, and no source frame is read and
\* no frame is written on the way.
C11_InvalidRequestRejected ==
    InvalidRequest =>
       /\ smp.readLog = <<>>
       /\ smp.extracted = 0
       /\ (pc \in Final => exitCode = 1)

\* ---- the monitoring loop (pkg)

Last(s) == s[Len(s)]

RECURSIVE Flatten(_)
Flatten(ss) == IF ss = <<>> THEN <<>> ELSE Head(ss) \o Flatten(Tail(ss))

IsStageEvent(e) == e.kind = "StageChanged"
IsPercentEvent(e) == e.kind = "PercentUpdated"
IsFeatureEvent(e) == e.kind = "FeatureProgress"
IsAlertEvent(e) == e.kind = "Alert"
IsProgressEvent(e) == IsStageEvent(e) \/ IsPercentEvent(e) \/ IsFeatureEvent(e)

\* the loop has just handled one more line
LineHandled ==
    /\ mon.running /\ mon'.running
    /\ Len(mon'.lines) = Len(mon.lines) + 1

\* C12: a line with an integer followed by '%' produces a percent update only
\* if the parsed percent differs from the last recorded percent, and the
\* parsed percent is then the recorded one; a line without one produces no
\* update; the same line twice in a row never produces two percent updates.
C12_PercentDedup ==
    [][LineHandled =>
         LET l    == Last(mon'.lines)
             pm   == PercentMatch(l)
             upds == SelectSeq(Last(mon'.out), IsPercentEvent)
         IN /\ pm = NoMatch => upds = <<>> /\ mon'.percent = mon.percent
            /\ pm # NoMatch =>
                 /\ mon'.percent = pm[1]
                 /\ IF pm[1] # mon.percent
                    THEN Len(upds) = 1 /\ upds[1].percent = pm[1]
                    ELSE upds = <<>>
            /\ (/\ mon.lines # <<>>
                /\ Last(mon.lines) = l
                /\ SelectSeq(Last(mon.out), IsPercentEvent) # <<>>) => upds = <<>>]_vars

\* the line "45%" was fed twice in a row: one update, then none
C12_Witness ==
    /\ mon.running
    /\ mon.lines = <<LinePercent45, LinePercent45>>
    /\ SelectSeq(mon.out[1], IsPercentEvent) # <<>>
    /\ mon.out[2] = <<>>

\* The stage set by the most recent stage line among the first k lines.
LastStage(lines, k) ==
    LET ks == {j \in 1..k : StageMatch(lines[j]) # NoMatch}
    IN IF ks = {} THEN StageInitializing
       ELSE StageMatch(lines[CHOOSE j \in ks : \A h \in ks : h <= j])[1]

\* C13: fed "Processing node: FeatureExtraction", "45%", "Features: 10/20"
\* from the initial state, the loop emits StageChanged(FeatureExtraction),
\* PercentUpdated(FeatureExtraction, 45) and FeatureProgress(10, 20) in that
\* order; every percent update carries the stage of the most recent stage line.
C13_StagePercentFeature ==
    mon.running =>
       /\ mon.lines = <<LineStage, LinePercent45, LineFeatures>> =>
            LET evs == SelectSeq(Flatten(mon.out), IsProgressEvent)
            IN /\ Len(evs) = 3
               /\ evs[1] = StageChanged(StageFeatureExtraction)
               /\ IsPercentEvent(evs[2])
               /\ evs[2].stage = StageFeatureExtraction /\ evs[2].percent = 45
               /\ evs[3] = FeatureProgress(10, 20)
       /\ \A k \in 1..Len(mon.lines) :
            \A j \in 1..Len(mon.out[k]) :
               IsPercentEvent(mon.out[k][j]) =>
                  mon.out[k][j].stage = LastStage(mon.lines, k)

C13_Witness ==
    /\ mon.running
    /\ mon.lines = <<LineStage, LinePercent45, LineFeatures>>
    /\ Len(mon.out[2]) = 1 /\ IsPercentEvent(mon.out[2][1])
    /\ mon.out[3] = <<FeatureProgress(10, 20)>>

\* C14: the recorded percent and the percent of every percent update lie in
\* 0..100 and the estimated remaining time is never negative.
C14_PercentInRange ==
    mon.running =>
       /\ mon.percent \in 0..100
       /\ \A k \in 1..Len(mon.out) :
            \A j \in 1..Len(mon.out[k]) :
               IsPercentEvent(mon.out[k][j]) =>
                  /\ mon.out[k][j].percent \in 0..100
                  /\ mon.out[k][j].remaining >= 0

\* the line contains error, warning or exception, in any case
HasAlertKeyword(l) ==
    \E kw \in {KwError, KwWarning, KwException} : Contains(Lower(l), kw)

\* the line without its line terminator
Chomp(l) == IF l # <<>> /\ Last(l) = "\n" THEN SubSeq(l, 1, Len(l) - 1) ELSE l

\* the severity the keywords of the line stand for
Severity(l) ==
    IF Contains(Lower(l), KwError) \/ Contains(Lower(l), KwException)
    THEN "Error" ELSE "Warning"

C16_FeatureAlways ==
    mon.running =>
       \A k \in 1..Len(mon.lines) :
          LET fm == FeatureMatch(mon.lines[k])
          IN fm # NoMatch =>
                \E j \in 1..Len(mon.out[k]) :
                   mon.out[k][j] = FeatureProgress(fm[1], fm[2])

\* C16 (amended): a line matching 'Features: <done>/<total>' yields exactly
\* one FeatureProgress(done, total) when total > 0 and none when total = 0;
\* a line that does not match yields none.
C16_FeatureWhenTotalPositive ==
    mon.running =>
       \A k \in 1..Len(mon.lines) :
          LET fm  == FeatureMatch(mon.lines[k])
              fes == SelectSeq(mon.out[k], IsFeatureEvent)
          IN IF fm # NoMatch /\ fm[2] > 0
             THEN fes = <<FeatureProgress(fm[1], fm[2])>>
             ELSE fes = <<>>

\* both feature lines were fed: 10/20 was reported, 3/0 was not
C16_Witness ==
    /\ mon.running
    /\ mon.lines = <<LineFeatures, LineFeaturesZero>>
    /\ mon.out[1] = <<FeatureProgress(10, 20)>>
    /\ mon.out[2] = <<>>

\* ---- output discovery (pkg)

\* the run folders of the texturing folder the discovery looked into
FoundFolders ==
    IF discovery.fs.cache /\ discovery.fs.tex # <<>> /\ discovery.fs.tex[1].isdir
    THEN discovery.fs.tex[1].subdirs ELSE <<>>

\* the run folders that no other run folder is newer than
NewestFolders ==
    {i \in DOMAIN FoundFolders :
        \A j \in DOMAIN FoundFolders : FoundFolders[j].mtime <= FoundFolders[i].mtime}

InOpenCVLoop == variant = "top" /\ backend = "opencv" /\ smp.phase \in {"loop", "done"}

\* C18: the loop counter of the stride test equals the physical offset from
\* startFrame of the frame read, also after look-ahead frames were consumed,
\* so that a frame is a candidate iff its offset is a multiple of the stride.
C18_CounterIsOffset ==
    InOpenCVLoop /\ smp.phase = "loop" /\ ReadOk(smp.pos, video.frames) =>
       /\ smp.count = smp.pos - smp.start_frame
       /\ IsCandidate(smp.count, cfg.frame_interval)
             <=> (smp.pos - smp.start_frame) % cfg.frame_interval = 0

\* C19: every accepted frame lies in [startFrame, endFrame), where endFrame
\* is the minimum of the frame count and startFrame plus the duration in
\* frames, with blur detection on or off; no frame at or beyond endFrame is
\* accepted.
C19_AcceptedInsideWindow ==
    InOpenCVLoop =>
       LET endFrame == EndFrame(cfg, video_info, video.frames)
       IN \A i \in DOMAIN smp.saved :
             /\ smp.saved[i].src >= smp.start_frame
             /\ smp.saved[i].src < endFrame

\* C20: the stream position is the start position plus the number of frames
\* read, also after a look-ahead scan that stopped at the end of the stream
\* or found no better frame; the frames read are consecutive, none twice and
\* none skipped.
C20_PositionMatchesFramesRead ==
    InOpenCVLoop =>
       /\ smp.pos = smp.start_frame + Len(smp.readLog)
       /\ \A i \in DOMAIN smp.readLog : smp.readLog[i] = smp.start_frame + i - 1

\* ---- blur rejection with look-ahead (top)

BlurLoop == InOpenCVLoop /\ cfg.detect_blur

\* the look-ahead frames of slot k, by their place in the scan, that are
\* sharper than the candidate and reach the threshold
Qualifying(k) ==
    {j \in DOMAIN smp.slots[k].ahead :
        /\ smp.slots[k].ahead[j] > smp.slots[k].score
        /\ smp.slots[k].ahead[j] >= BlurThreshold}

\* C21: for a candidate below the threshold the accepted frame is the first
\* look-ahead frame, in stream order, that is sharper than the candidate and
\* reaches the threshold, and the scan stops there; a candidate that reaches
\* the threshold is accepted as is and no look-ahead frame is read.
C21_FirstImprovingFrame ==
    BlurLoop =>
       /\ Len(smp.slots) = Len(smp.saved)
       /\ \A k \in DOMAIN smp.slots :
            LET sl == smp.slots[k]
                q  == Qualifying(k)
            IN /\ sl.score >= BlurThreshold =>
                    /\ sl.ahead = <<>>
                    /\ smp.saved[k].src = sl.cand /\ smp.saved[k].score = sl.score
               /\ sl.score < BlurThreshold /\ q # {} =>
                    /\ q = {Len(sl.ahead)}
                    /\ smp.saved[k].src = sl.cand + Len(sl.ahead)
                    /\ smp.saved[k].score = sl.ahead[Len(sl.ahead)]
               /\ sl.score < BlurThreshold /\ q = {} =>
                    /\ smp.saved[k].src = sl.cand /\ smp.saved[k].score = sl.score

\* a blurry candidate was replaced by the second frame after it, the first
\* one being no better
C21_Witness ==
    /\ BlurLoop
    /\ smp.slots # <<>>
    /\ smp.slots[1].score < BlurThreshold
    /\ Len(smp.slots[1].ahead) = 2
    /\ smp.slots[1].ahead[1] < BlurThreshold
    /\ smp.saved[1].src = smp.slots[1].cand + 2

\* C22: for a blurry candidate at most min(floor(stride / 2), look-ahead
\* count) look-ahead frames are read, the look-ahead count being the 5 of the
\* program; with stride 1 none is read and the candidate itself is accepted.
C22_LookAheadBound ==
    BlurLoop =>
       \A k \in DOMAIN smp.slots :
          /\ Len(smp.slots[k].ahead) <= cfg.frame_interval \div 2
          /\ Len(smp.slots[k].ahead) <= LookAheadCap
          /\ cfg.frame_interval = 1 =>
                /\ smp.slots[k].ahead = <<>>
                /\ smp.saved[k].src = smp.slots[k].cand

\* a scan ran to the cap although half the stride is more, and frames were
\* left in the stream
C22_Witness ==
    /\ BlurLoop
    /\ cfg.frame_interval \div 2 > LookAheadCap
    /\ smp.slots # <<>>
    /\ Len(smp.slots[1].ahead) = LookAheadCap
    /\ smp.saved[1].src = smp.slots[1].cand
    /\ smp.pos < video.frames

\* C23: when no look-ahead frame qualifies for a blurry candidate (none is
\* sharper and reaches the threshold, or the stream ends during the scan) the
\* candidate itself is accepted and the kept-blurry counter grows by one; it
\* grows in no other case, so it equals the number of accepted frames whose
\* score is below the threshold.
C23_KeptBlurryCounter ==
    BlurLoop =>
       /\ \A k \in DOMAIN smp.slots :
            smp.slots[k].score < BlurThreshold /\ Qualifying(k) = {} =>
               /\ smp.saved[k].src = smp.slots[k].cand
               /\ smp.saved[k].score < BlurThreshold
       /\ smp.skipped_blur =
            Cardinality({k \in DOMAIN smp.slots :
                            smp.slots[k].score < BlurThreshold /\ Qualifying(k) = {}})
       /\ smp.skipped_blur =
            Cardinality({k \in DOMAIN smp.saved : smp.saved[k].score < BlurThreshold})

\* the run ended with one candidate replaced and one kept blurry because the
\* stream ended during its scan
C23_Witness ==
    /\ BlurLoop /\ smp.phase = "done"
    /\ Len(smp.slots) = 2
    /\ smp.skipped_blur = 1
    /\ smp.saved[1].src # smp.slots[1].cand
    /\ smp.slots[2].score < BlurThreshold
    /\ Len(smp.slots[2].ahead) < LookAheadLimit(cfg.frame_interval)
    /\ smp.saved[2].src = smp.slots[2].cand

\* ---- rotation (top)

RightAngles == {0, 90, 180, 270}

\* the degrees the request gives, as a set: empty when the request is auto
\* (or is not a valid rotation, which main() turns into auto)
RequestedDegrees ==
    IF cfg.rotate = "0" THEN {0}
    ELSE IF cfg.rotate = "90" THEN {90}
    ELSE IF cfg.rotate = "180" THEN {180}
    ELSE IF cfg.rotate = "270" THEN {270}
    ELSE {}

\* the rotations, in degrees clockwise, that may be applied to the frames
\* of this run according to the claim
ClaimedRotations ==
    IF RequestedDegrees # {} THEN RequestedDegrees
    ELSE IF video_info.rotation \in RightAngles THEN {video_info.rotation}
    ELSE RightAngles

\* the rotation in degrees clockwise that a cv2.rotate code stands for
DegreesOfCv2(code) ==
    CASE code = "none" -> 0
      [] code = "ROTATE_90_CLOCKWISE" -> 90
      [] code = "ROTATE_180" -> 180
      [] code = "ROTATE_90_COUNTERCLOCKWISE" -> 270

\* the rotation in degrees clockwise of a -vf filter: transpose=1 turns 90
\* degrees clockwise, transpose=2 turns 90 degrees counter-clockwise
DegreesOfVf(filter) ==
    CASE filter = "none" -> 0
      [] filter = "transpose=1" -> 90
      [] filter = "transpose=2,transpose=2" -> 180
      [] filter = "transpose=2" -> 270

\* C24: the rotation applied to every accepted frame is the explicit
\* override when the request gives degrees (an explicit 0 means none, also
\* for a video with a rotation tag) and the detected rotation of the video
\* when the request is auto; it is always one of 0, 90 (clockwise), 180, 270
\* (counter-clockwise), and the OpenCV and the FFmpeg path resolve the same
\* rotation for the same request and video information.
C24_EffectiveRotation ==
    variant = "top" /\ smp.phase \in {"loop", "done"} =>
       /\ Len(smp.transforms) = Len(smp.saved)
       /\ \A k \in DOMAIN smp.transforms :
             DegreesOfCv2(smp.transforms[k]) \in ClaimedRotations
       /\ DegreesOfVf(smp.vf) \in RightAngles
       /\ backend = "ffmpeg" /\ smp.phase = "done" =>
             DegreesOfVf(smp.vf) \in ClaimedRotations
       /\ \A r \in RightAngles :
             DegreesOfVf(VfFilter(r)) = DegreesOfCv2(Cv2Rotate(r))

\* a frame of a video tagged 90 was saved unrotated on an explicit 0
C24_Witness ==
    /\ variant = "top" /\ backend = "opencv"
    /\ cfg.rotate = "0" /\ video_info.rotation = 90
    /\ smp.transforms = <<"none">>

\* ---- the pipes of the external process (pkg)

\* the loop waits for a line: the stdout pipe is empty and still open
WaitingForStdout ==
    /\ pc = "AwaitingExternalProcess" /\ mon.running
    /\ proc.outq = <<>> /\ proc.op # "done"

\* the process waits for room in the stderr pipe
WaitingForStderrRoom == proc.op = "err" /\ proc.errq >= proc.cap

\* C25: when the external process writes finitely many lines to its standard
\* output and standard error and then exits, the loop and the process never
\* block each other forever: it never happens that the loop waits for a
\* stdout line while the process waits for room in the unread stderr pipe.
C25_NeverMutuallyBlocked == ~(WaitingForStdout /\ WaitingForStderrRoom)

\* ---- alerts and informative lines (pkg)

IsInfoEvent(e) == e.kind = "Info"

\* the Alerts and InfoLines among the events of one line
AlertsAndInfos(evs) == SelectSeq(evs, LAMBDA e : IsAlertEvent(e) \/ IsInfoEvent(e))

\* C26: a single input line produces at most one alert-or-info output: at
\* most one Alert, never the same Alert twice, never both an Alert and an
\* InfoLine, and an InfoLine only when the line contains none of error,
\* warning, exception and contains one of creating, computing, processing,
\* starting; lines with a bracketed [task] tag that itself contains error or
\* warning included.
C26_OneAlertOrInfoPerLine ==
    mon.running =>
        \A k \in 1..Len(mon.lines) :
            /\ Len(AlertsAndInfos(mon.out[k])) <= 1
            /\ \A j \in 1..Len(mon.out[k]) :
                  IsInfoEvent(mon.out[k][j]) =>
                      ~HasAlertKeyword(mon.lines[k]) /\ IsInfoLine(mon.lines[k])

\* ---- what a stage line leaves alone (pkg)

\* the line carries a stage declaration
IsStageLine(l) == StageMatch(l) # NoMatch

\* C27 as stated: every line with a stage declaration leaves the last
\* recorded percent and the start timestamp unchanged.
C27_StageLineKeepsPercent ==
    [][LineHandled /\ IsStageLine(Last(mon'.lines)) =>
         /\ mon'.percent = mon.percent
         /\ mon'.start = mon.start]_vars

\* C27: a line with a stage declaration sets the current stage name and
\* leaves the start timestamp unchanged; it leaves the last recorded percent
\* unchanged unless the same line also carries an integer followed by '%',
\* which is then recorded as for any other line.  The percent line seen
\* right after a stage line without percent produces no update when its
\* value equals the percent recorded before the stage line, and a first line
\* "0%" from the initial state produces no percent update.
C27_StageLineFrame ==
    [][LineHandled =>
         LET l    == Last(mon'.lines)
             pm   == PercentMatch(l)
             upds == SelectSeq(Last(mon'.out), IsPercentEvent)
             n    == Len(mon.lines)
         IN /\ mon'.start = mon.start
            /\ IsStageLine(l) =>
                 /\ mon'.stage = StageMatch(l)[1]
                 /\ mon'.percent = (IF pm = NoMatch THEN mon.percent ELSE pm[1])
                 /\ pm = NoMatch => upds = <<>>
            /\ (/\ n >= 2
                /\ IsStageLine(mon.lines[n])
                /\ PercentMatch(mon.lines[n]) = NoMatch
                /\ PercentMatch(mon.lines[n - 1]) # NoMatch
                /\ pm # NoMatch
                /\ pm[1] = PercentMatch(mon.lines[n - 1])[1]) => upds = <<>>
            /\ (n = 0 /\ l = LinePercent0) => upds = <<>>]_vars

\* "45%", then a stage line, then "45%" again: the stage changed, the percent
\* stayed 45 and the third line produced no update
C27_Witness ==
    /\ mon.running
    /\ mon.lines = <<LinePercent45, LineStage, LinePercent45>>
    /\ SelectSeq(mon.out[1], IsPercentEvent) # <<>>
    /\ SelectSeq(mon.out[2], IsStageEvent) # <<>>
    /\ mon.out[3] = <<>>
    /\ mon.percent = 45
    /\ mon.stage # StageInitializing

====
